---- MODULE Spec2Model ----
(***************************************************************************)
(* The Firehose blueprint of stacker_blueprints/firehose.py: the policy    *)
(* statement library, the KMS key policy synthesizer and the four steps of *)
(* Firehose.create_template, which register resources and outputs in a     *)
(* troposphere template from the blueprint's resolved variables.           *)
(***************************************************************************)
EXTENDS Naturals, Sequences, FiniteSets, TLC

VARIABLES
    variables,      \* the mapping get_variables() returns: name -> [type, val]
    template,       \* self.template: [resources, outputs]
    pc,             \* position in the composition
    snapshot,       \* history: `variables` when the current composition began
    rendered,       \* history: the finished template of each composition so far
    key_use_arns,   \* argument of a direct call of kms_key_policy
    key_admin_arns, \* argument of a direct call of kms_key_policy
    policy          \* <<>>, or <<document>> once kms_key_policy has returned

vars == <<variables, template, pc, snapshot, rendered,
          key_use_arns, key_admin_arns, policy>>

-----------------------------------------------------------------------------
(* Bounds of the exploration.                                              *)

\* longest RoleNames / GroupNames / UserNames list drawn
MaxNames == 1
\* longest KeyUseArns list supplied by the caller
MaxUseArns == 2
\* longest KeyAdminArns list supplied by the caller
MaxAdminArns == 1
\* number of times create_template is invoked on the same variables
MaxRuns == 2

-----------------------------------------------------------------------------
(* Logical resource names, firehose.py lines 29-37.                        *)

BUCKET == "S3Bucket"
IAM_ROLE == "IAMRole"
FIREHOSE_WRITE_POLICY == "FirehoseWriteAccess"
LOGS_POLICY == "LogsPolicy"
S3_WRITE_POLICY == "S3WriteAccess"
LOGS_WRITE_POLICY == "LogsWriteAccess"
KMS_KEY == "EncryptionKey"
KEY_ALIAS == "KeyAlias"

-----------------------------------------------------------------------------
(* Template values.  Every value is a record [fn, s, args] so that any two *)
(* of them can be compared: a literal string, a list, or one of the        *)
(* troposphere intrinsics Ref, GetAtt and Join.                            *)

Str(s) == [fn |-> "Str", s |-> s, args |-> <<>>]
ListV(l) == [fn |-> "List", s |-> "", args |-> l]
Ref(name) == [fn |-> "Ref", s |-> name, args |-> <<>>]
GetAtt(name, attr) == [fn |-> "GetAtt", s |-> name, args |-> <<Str(attr)>>]
Join(delim, values) == [fn |-> "Join", s |-> delim, args |-> values]

NoValue == Ref("AWS::NoValue")

\* Python's `x or y` for a list x and for a str x
ListOr(l, other) == IF l # <<>> THEN ListV(l) ELSE other
StrOr(s, other) == IF s # "" THEN Str(s) ELSE other

-----------------------------------------------------------------------------
(* awacs documents.  A field the code does not pass is "None".             *)

NoPrincipal == [type |-> "None", ids |-> Str("")]
Principal(type, ids) == [type |-> type, ids |-> ids]
AWSPrincipal(ids) == Principal("AWS", ids)

NoCondition == [op |-> "None", key |-> "", value |-> Str("")]
Condition(op, key, value) == [op |-> op, key |-> key, value |-> value]

Statement(sid, principal, action, resource, condition) ==
    [Sid |-> sid, Effect |-> "Allow", Principal |-> principal,
     Action |-> action, Resource |-> resource, Condition |-> condition]

Policy(version, id, statements) ==
    [Version |-> version, Id |-> id, Statement |-> statements]

s3_arn(bucket) == Join("", <<Str("arn:aws:s3:::"), bucket>>)

logs_policy ==
    Policy("None", "None", <<
        Statement("None", NoPrincipal,
                  <<"logs:CreateLogStream", "logs:CreateLogGroup">>,
                  <<Str("*")>>, NoCondition)
    >>)

firehose_write_policy ==
    Policy("None", "None", <<
        Statement("None", NoPrincipal,
                  <<"firehose:CreateDeliveryStream",
                    "firehose:DeleteDeliveryStream",
                    "firehose:DescribeDeliveryStream",
                    "firehose:PutRecord",
                    "firehose:PutRecordBatch">>,
                  <<Str("*")>>, NoCondition)
    >>)

logs_write_policy ==
    Policy("None", "None", <<
        Statement("None", NoPrincipal,
                  <<"logs:PutLogEvents">>,
                  <<Str("*")>>, NoCondition)
    >>)

s3_write_policy(bucket) ==
    Policy("None", "None", <<
        Statement("None", NoPrincipal,
                  <<"s3:AbortMultipartUpload",
                    "s3:GetBucketLocation",
                    "s3:GetObject",
                    "s3:ListBucket",
                    "s3:ListBucketMultipartUploads",
                    "s3:PutObject">>,
                  <<s3_arn(bucket),
                    s3_arn(Join("/", <<bucket, Str("*")>>))>>,
                  NoCondition)
    >>)

root_arn == Join(":", <<Str("arn:aws:iam:"), Ref("AWS::AccountId"), Str("root")>>)

RootStatement ==
    Statement("Enable IAM User Permissions", AWSPrincipal(root_arn),
              <<"kms:*">>, <<Str("*")>>, NoCondition)

UseStatement(arns) ==
    Statement("Allow use of the key", AWSPrincipal(ListV(arns)),
              <<"kms:Encrypt", "kms:Decrypt", "kms:ReEncrypt",
                "kms:GenerateDataKey", "kms:GenerateDataKeyWithoutPlaintext",
                "kms:DescribeKey">>,
              <<Str("*")>>, NoCondition)

GrantStatement(arns) ==
    Statement("Allow attachment of persistent resources",
              AWSPrincipal(ListV(arns)),
              <<"kms:CreateGrant", "kms:ListGrants", "kms:RevokeGrant">>,
              <<Str("*")>>,
              Condition("Bool", "kms:GrantIsForAWSResource", Str("true")))

AdminStatement(arns) ==
    Statement("Allow access for Key Administrators",
              AWSPrincipal(ListV(arns)),
              <<"kms:Create*", "kms:Describe*", "kms:Enable*", "kms:List*",
                "kms:Put*", "kms:Update*", "kms:Revoke*", "kms:Disable*",
                "kms:Get*", "kms:Delete*", "kms:ScheduleKeyDeletion",
                "kms:CancelKeyDeletion">>,
              <<Str("*")>>, NoCondition)

\* a slip in the second test: the admin statement is gated on the use list
kms_key_policy_gate_slip(use_arns, admin_arns) ==
    Policy("2012-10-17", "key-default-1",
           <<RootStatement>>
           \o (IF use_arns # <<>>
                 THEN <<UseStatement(use_arns), GrantStatement(use_arns)>>
                 ELSE <<>>)
           \o (IF use_arns # <<>> THEN <<AdminStatement(admin_arns)>> ELSE <<>>))

kms_key_policy(use_arns, admin_arns) ==
    Policy("2012-10-17", "key-default-1",
           <<RootStatement>>
           \o (IF use_arns # <<>>
                 THEN <<UseStatement(use_arns), GrantStatement(use_arns)>>
                 ELSE <<>>)
           \o (IF admin_arns # <<>> THEN <<AdminStatement(admin_arns)>> ELSE <<>>))

-----------------------------------------------------------------------------
(* Firehose.VARIABLES: the declared type and default of each variable.     *)

VARIABLES_ ==
    [RoleNames       |-> [type |-> "list", default |-> <<>>],
     GroupNames      |-> [type |-> "list", default |-> <<>>],
     UserNames       |-> [type |-> "list", default |-> <<>>],
     BucketName      |-> [type |-> "str",  default |-> ""],
     EncryptS3Bucket |-> [type |-> "bool", default |-> TRUE],
     EnableKeyRotation |-> [type |-> "bool", default |-> TRUE],
     KeyUseArns      |-> [type |-> "list", default |-> <<>>],
     KeyAdminArns    |-> [type |-> "list", default |-> <<>>]]

VarNames == DOMAIN VARIABLES_

\* variables[name] as the code reads it
Get(name) == variables[name].val

-----------------------------------------------------------------------------
(* The configurations explored.                                            *)

SeqsUpTo(S, n) == UNION {[1..k -> S] : k \in 0..n}

NameLists(who) == SeqsUpTo({Str(who)}, MaxNames)
UseArnLists == SeqsUpTo({Str("arn:use-1"), Str("arn:use-2")}, MaxUseArns)
AdminArnLists == SeqsUpTo({Str("arn:admin-1")}, MaxAdminArns)
BucketNames == {"", "my-bucket"}

Configurations ==
    [RoleNames : NameLists("role-a"),
     GroupNames : NameLists("group-a"),
     UserNames : NameLists("user-a"),
     BucketName : BucketNames,
     EncryptS3Bucket : BOOLEAN,
     EnableKeyRotation : BOOLEAN,
     KeyUseArns : UseArnLists,
     KeyAdminArns : AdminArnLists]

\* a supplied value whose Python type is not the declared one
IllTyped(name) ==
    IF VARIABLES_[name].type = "str"
      THEN [type |-> "list", val |-> <<>>]
      ELSE [type |-> "str", val |-> "oops"]

Supplied(c, bad) ==
    [n \in VarNames |->
        IF n = bad THEN IllTyped(n)
                   ELSE [type |-> VARIABLES_[n].type, val |-> c[n]]]

-----------------------------------------------------------------------------
(* The troposphere template: resources and outputs by logical name.        *)

EmptyTemplate == [resources |-> <<>>, outputs |-> <<>>]

add_resource(t, name, resource) ==
    [t EXCEPT !.resources = @ @@ (name :> resource)]

add_output(t, name, value) ==
    [t EXCEPT !.outputs = @ @@ (name :> value)]

Resources(t) == DOMAIN t.resources
Outputs(t) == DOMAIN t.outputs

kms_Key(description, rotation, key_policy) ==
    [Type |-> "AWS::KMS::Key", Description |-> description, Enabled |-> TRUE,
     EnableKeyRotation |-> rotation, KeyPolicy |-> key_policy]

kms_Alias(alias_name, target) ==
    [Type |-> "AWS::KMS::Alias", AliasName |-> alias_name, TargetKeyId |-> target]

s3_Bucket(bucket_name) ==
    [Type |-> "AWS::S3::Bucket", BucketName |-> bucket_name]

iam_Policy(title, policy_name, document) ==
    [title |-> title, PolicyName |-> policy_name, PolicyDocument |-> document]

iam_Role(assume, path, policies) ==
    [Type |-> "AWS::IAM::Role", AssumeRolePolicyDocument |-> assume,
     Path |-> path, Policies |-> policies]

iam_PolicyType(policy_name, document, roles, groups, users) ==
    [Type |-> "AWS::IAM::Policy", PolicyName |-> policy_name,
     PolicyDocument |-> document, Roles |-> roles, Groups |-> groups,
     Users |-> users]

\* self.context.get_fqn(self.name)
get_fqn == "ns-firehose"

-----------------------------------------------------------------------------
(* Variable resolution of the base Blueprint, which runs before            *)
(* create_template: every supplied value must have its declared type.      *)

TypesMatch == \A n \in VarNames : variables[n].type = VARIABLES_[n].type

resolve_variables ==
    /\ pc = "resolve_variables"
    /\ pc' = IF TypesMatch THEN "create_kms_key" ELSE "failed"
    /\ UNCHANGED <<variables, template, snapshot, rendered,
                   key_use_arns, key_admin_arns, policy>>

-----------------------------------------------------------------------------
(* Firehose.create_kms_key                                                  *)

key_description ==
    Join("", <<Str("S3 Bucket kms encryption key for stack "),
               Ref("AWS::StackName")>>)

key_arn ==
    Join("", <<Str("arn:aws:kms:"), Ref("AWS::Region"), Str(":"),
               Ref("AWS::AccountId"), Str(":key/"), Ref(KMS_KEY)>>)

\* the template after a key with this policy, its alias and the three
\* outputs have been registered (lines 271-302)
WithKey(t, key_policy) ==
    LET t1 == add_resource(t, KMS_KEY,
                  kms_Key(key_description, Get("EnableKeyRotation"), key_policy))
        t2 == add_resource(t1, KEY_ALIAS,
                  kms_Alias(Str("alias/" \o get_fqn), Ref(KMS_KEY)))
        t3 == add_output(t2, "KmsKeyArn", key_arn)
        t4 == add_output(t3, "KmsKeyId", Ref(KMS_KEY))
    IN  add_output(t4, "KmsKeyAlias", Ref(KEY_ALIAS))

\* variables["KeyUseArns"] after `key_use_arns.append(GetAtt(IAM_ROLE, "Arn"))`:
\* key_use_arns is the list object the mapping holds, so the mapping sees it
AppendedKeyUseArns == Append(Get("KeyUseArns"), GetAtt(IAM_ROLE, "Arn"))

\* the early return on EncryptS3Bucket is missing
create_kms_key_no_guard ==
    /\ pc = "create_kms_key"
    /\ variables' = [variables EXCEPT !["KeyUseArns"].val = AppendedKeyUseArns]
    /\ template' = WithKey(template,
                       kms_key_policy(AppendedKeyUseArns, Get("KeyAdminArns")))
    /\ pc' = "create_policy"
    /\ UNCHANGED <<snapshot, rendered, key_use_arns, key_admin_arns, policy>>

\* the role's ARN is put in front of the caller's list instead of after it
create_kms_key_prepend ==
    /\ pc = "create_kms_key"
    /\ IF ~Get("EncryptS3Bucket")
         THEN UNCHANGED <<variables, template>>
         ELSE LET arns == <<GetAtt(IAM_ROLE, "Arn")>> \o Get("KeyUseArns")
              IN  /\ variables' = [variables EXCEPT !["KeyUseArns"].val = arns]
                  /\ template' = WithKey(template,
                                     kms_key_policy(arns, Get("KeyAdminArns")))
    /\ pc' = "create_policy"
    /\ UNCHANGED <<snapshot, rendered, key_use_arns, key_admin_arns, policy>>

create_kms_key ==
    /\ pc = "create_kms_key"
    /\ IF ~Get("EncryptS3Bucket")
         THEN UNCHANGED <<variables, template>>
         ELSE /\ variables' = [variables EXCEPT
                                  !["KeyUseArns"].val = AppendedKeyUseArns]
              /\ template' = WithKey(template,
                                 kms_key_policy(AppendedKeyUseArns,
                                                Get("KeyAdminArns")))
    /\ pc' = "create_policy"
    /\ UNCHANGED <<snapshot, rendered, key_use_arns, key_admin_arns, policy>>

-----------------------------------------------------------------------------
(* Firehose.create_policy                                                   *)

AttachmentPolicies(t, roles, groups, users, logs_document) ==
    LET t1 == add_resource(t, FIREHOSE_WRITE_POLICY,
                  iam_PolicyType(get_fqn \o "-firehose", firehose_write_policy,
                                 roles, groups, users))
    IN  add_resource(t1, LOGS_POLICY,
            iam_PolicyType(get_fqn \o "-logs", logs_document,
                           roles, groups, users))

\* the attachments are the raw lists, without `or Ref("AWS::NoValue")`
create_policy_raw_lists ==
    /\ pc = "create_policy"
    /\ template' =
          IF Get("RoleNames") # <<>> \/ Get("GroupNames") # <<>>
                                     \/ Get("UserNames") # <<>>
            THEN AttachmentPolicies(template, ListV(Get("RoleNames")),
                     ListV(Get("GroupNames")), ListV(Get("UserNames")),
                     logs_policy)
            ELSE template
    /\ pc' = "create_bucket"
    /\ UNCHANGED <<variables, snapshot, rendered,
                   key_use_arns, key_admin_arns, policy>>

\* the log attachment policy is built from logs_write_policy()
create_policy_logs_write ==
    /\ pc = "create_policy"
    /\ LET external_roles == ListOr(Get("RoleNames"), NoValue)
           external_groups == ListOr(Get("GroupNames"), NoValue)
           external_users == ListOr(Get("UserNames"), NoValue)
           create == \/ Get("RoleNames") # <<>>
                     \/ Get("GroupNames") # <<>>
                     \/ Get("UserNames") # <<>>
       IN  template' = IF create
                         THEN AttachmentPolicies(template, external_roles,
                                  external_groups, external_users,
                                  logs_write_policy)
                         ELSE template
    /\ pc' = "create_bucket"
    /\ UNCHANGED <<variables, snapshot, rendered,
                   key_use_arns, key_admin_arns, policy>>

create_policy ==
    /\ pc = "create_policy"
    /\ LET external_roles == ListOr(Get("RoleNames"), NoValue)
           external_groups == ListOr(Get("GroupNames"), NoValue)
           external_users == ListOr(Get("UserNames"), NoValue)
           create == \/ Get("RoleNames") # <<>>
                     \/ Get("GroupNames") # <<>>
                     \/ Get("UserNames") # <<>>
       IN  template' = IF create
                         THEN AttachmentPolicies(template, external_roles,
                                  external_groups, external_users, logs_policy)
                         ELSE template
    /\ pc' = "create_bucket"
    /\ UNCHANGED <<variables, snapshot, rendered,
                   key_use_arns, key_admin_arns, policy>>

-----------------------------------------------------------------------------
(* Firehose.create_bucket                                                   *)

\* the Bucket output is registered but the bucket resource is not
create_bucket_output_only ==
    /\ pc = "create_bucket"
    /\ template' = add_output(template, "Bucket", Ref(BUCKET))
    /\ pc' = "create_role"
    /\ UNCHANGED <<variables, snapshot, rendered,
                   key_use_arns, key_admin_arns, policy>>

create_bucket ==
    /\ pc = "create_bucket"
    /\ LET bucket_name == StrOr(Get("BucketName"), NoValue)
           t1 == add_resource(template, BUCKET, s3_Bucket(bucket_name))
       IN  template' = add_output(t1, "Bucket", Ref(BUCKET))
    /\ pc' = "create_role"
    /\ UNCHANGED <<variables, snapshot, rendered,
                   key_use_arns, key_admin_arns, policy>>

-----------------------------------------------------------------------------
(* Firehose.generate_iam_policies and Firehose.create_role                  *)

\* the object-store policy is scoped to the configured name, not to the
\* bucket resource of this template
generate_iam_policies_by_name ==
    <<iam_Policy(S3_WRITE_POLICY, get_fqn \o "-s3-write",
                 s3_write_policy(Str(Get("BucketName")))),
      iam_Policy(LOGS_WRITE_POLICY, get_fqn \o "-logs-write",
                 logs_write_policy)>>

generate_iam_policies ==
    <<iam_Policy(S3_WRITE_POLICY, get_fqn \o "-s3-write",
                 s3_write_policy(Ref(BUCKET))),
      iam_Policy(LOGS_WRITE_POLICY, get_fqn \o "-logs-write",
                 logs_write_policy)>>

firehose_role_policy ==
    Policy("None", "None", <<
        Statement("None", Principal("Service", ListV(<<Str("firehose.amazonaws.com")>>)),
                  <<"sts:AssumeRole">>, <<>>,
                  Condition("StringEquals", "sts:ExternalId", Ref("AWS::AccountId")))
    >>)

\* the last step of create_template: the template is complete, and is what
\* this composition yields.  `rendered` keeps its content as of this moment;
\* the key policy's principal is the very list variables["KeyUseArns"] holds,
\* which no step changes between its append and this point
Finish(t) ==
    /\ template' = t
    /\ rendered' = Append(rendered, t)
    /\ pc' = "done"
    /\ UNCHANGED <<variables, snapshot, key_use_arns, key_admin_arns, policy>>

\* the role is registered under another logical name than IAM_ROLE
create_role_renamed ==
    /\ pc = "create_role"
    /\ LET t1 == add_resource(template, "Role",
                     iam_Role(firehose_role_policy, "/", generate_iam_policies))
           t2 == add_output(t1, "Role", Ref(IAM_ROLE))
       IN  Finish(add_output(t2, "RoleArn", GetAtt(IAM_ROLE, "Arn")))

create_role ==
    /\ pc = "create_role"
    /\ LET t1 == add_resource(template, IAM_ROLE,
                     iam_Role(firehose_role_policy, "/", generate_iam_policies))
           t2 == add_output(t1, "Role", Ref(IAM_ROLE))
       IN  Finish(add_output(t2, "RoleArn", GetAtt(IAM_ROLE, "Arn")))

-----------------------------------------------------------------------------
(* Firehose.create_template: the four steps, in this order.                *)

create_template ==
    \/ create_kms_key
    \/ create_policy
    \/ create_bucket
    \/ create_role

\* create_template is invoked once more, into a fresh template, and reads
\* the variable values the previous invocation left
create_template_again ==
    /\ pc = "done"
    /\ Len(rendered) < MaxRuns
    /\ template' = EmptyTemplate
    /\ snapshot' = variables
    /\ pc' = "create_kms_key"
    /\ UNCHANGED <<variables, rendered, key_use_arns, key_admin_arns, policy>>

Init ==
    /\ \E c \in Configurations, bad \in VarNames \cup {"none"} :
          variables = Supplied(c, bad)
    /\ snapshot = variables
    /\ template = EmptyTemplate
    /\ rendered = <<>>
    /\ pc = "resolve_variables"
    /\ key_use_arns = <<>>
    /\ key_admin_arns = <<>>
    /\ policy = <<>>

Next ==
    \/ resolve_variables
    \/ create_template
    \/ create_template_again

Spec == Init /\ [][Next]_vars

-----------------------------------------------------------------------------
(* kms_key_policy called directly, on any pair of lists.                   *)

PolicyArns == {Str("arn:use-1"), Str("arn:admin-1"), GetAtt(IAM_ROLE, "Arn")}

InitPolicy ==
    /\ key_use_arns \in SeqsUpTo(PolicyArns, MaxUseArns)
    /\ key_admin_arns \in SeqsUpTo(PolicyArns, MaxUseArns)
    /\ policy = <<>>
    /\ variables = Supplied([n \in VarNames |-> VARIABLES_[n].default], "none")
    /\ snapshot = variables
    /\ template = EmptyTemplate
    /\ rendered = <<>>
    /\ pc = "kms_key_policy"

call_kms_key_policy ==
    /\ pc = "kms_key_policy"
    /\ policy' = <<kms_key_policy(key_use_arns, key_admin_arns)>>
    /\ pc' = "returned"
    /\ UNCHANGED <<variables, template, snapshot, rendered,
                   key_use_arns, key_admin_arns>>

NextPolicy == call_kms_key_policy

SpecPolicy == InitPolicy /\ [][NextPolicy]_vars

-----------------------------------------------------------------------------
(* Vocabulary of the properties.                                            *)

RoleArnRef == [fn |-> "GetAtt", s |-> "IAMRole", args |-> <<Str("Arn")>>]
KeyOutputs == {"KmsKeyArn", "KmsKeyId", "KmsKeyAlias"}
PseudoParameters ==
    {"AWS::AccountId", "AWS::Region", "AWS::StackName", "AWS::NoValue"}

AnyNames ==
    \/ Get("RoleNames") # <<>>
    \/ Get("GroupNames") # <<>>
    \/ Get("UserNames") # <<>>

Sids(doc) == [i \in 1..Len(doc.Statement) |-> doc.Statement[i].Sid]
ActionsOf(doc) ==
    UNION {{doc.Statement[i].Action[k] : k \in 1..Len(doc.Statement[i].Action)} :
             i \in 1..Len(doc.Statement)}

\* the logical names a template value refers to
RECURSIVE Refs(_)
Refs(v) ==
    (IF v.fn \in {"Ref", "GetAtt"} /\ v.s \notin PseudoParameters
       THEN {v.s} ELSE {})
    \cup UNION {Refs(v.args[i]) : i \in 1..Len(v.args)}

RefsOfDoc(doc) ==
    UNION {Refs(doc.Statement[i].Principal.ids)
           \cup Refs(doc.Statement[i].Condition.value)
           \cup UNION {Refs(doc.Statement[i].Resource[k]) :
                         k \in 1..Len(doc.Statement[i].Resource)} :
             i \in 1..Len(doc.Statement)}

RefsOfResource(r) ==
    CASE r.Type = "AWS::KMS::Key" ->
           Refs(r.Description) \cup RefsOfDoc(r.KeyPolicy)
      [] r.Type = "AWS::KMS::Alias" ->
           Refs(r.AliasName) \cup Refs(r.TargetKeyId)
      [] r.Type = "AWS::S3::Bucket" -> Refs(r.BucketName)
      [] r.Type = "AWS::IAM::Role" ->
           RefsOfDoc(r.AssumeRolePolicyDocument)
           \cup UNION {RefsOfDoc(r.Policies[i].PolicyDocument) :
                         i \in 1..Len(r.Policies)}
      [] r.Type = "AWS::IAM::Policy" ->
           RefsOfDoc(r.PolicyDocument) \cup Refs(r.Roles)
           \cup Refs(r.Groups) \cup Refs(r.Users)

RefsOfTemplate(t) ==
    UNION {RefsOfResource(t.resources[n]) : n \in Resources(t)}
    \cup UNION {Refs(t.outputs[o]) : o \in Outputs(t)}

-----------------------------------------------------------------------------
(* C1: when create_template has completed with EncryptS3Bucket false, the  *)
(* template holds no EncryptionKey, no KeyAlias, no key policy document    *)
(* and none of the outputs KmsKeyArn, KmsKeyId, KmsKeyAlias, whatever      *)
(* KeyUseArns, KeyAdminArns and EnableKeyRotation are; with EncryptS3Bucket*)
(* true the key, the alias and the three outputs are all there.            *)
C1_KeyGroupIffEncrypt ==
    pc = "done" =>
        IF Get("EncryptS3Bucket")
          THEN /\ {"EncryptionKey", "KeyAlias"} \subseteq Resources(template)
               /\ KeyOutputs \subseteq Outputs(template)
          ELSE /\ Resources(template) \cap {"EncryptionKey", "KeyAlias"} = {}
               /\ Outputs(template) \cap KeyOutputs = {}
               /\ \A n \in Resources(template) :
                     "KeyPolicy" \notin DOMAIN template.resources[n]

C1_Witness ==
    /\ pc = "done"
    /\ ~Get("EncryptS3Bucket")
    /\ Get("EnableKeyRotation")
    /\ Get("KeyUseArns") # <<>>
    /\ Get("KeyAdminArns") # <<>>
    /\ "S3Bucket" \in Resources(template)

(* C2: kms_key_policy returns a document of version "2012-10-17" and id    *)
(* "key-default-1" whose statements are, in order: the root statement;     *)
(* the pair "Allow use of the key", "Allow attachment of persistent        *)
(* resources" with principal key_use_arns iff key_use_arns is non-empty;   *)
(* "Allow access for Key Administrators" with principal key_admin_arns iff *)
(* key_admin_arns is non-empty.                                            *)
C2_KeyPolicyShape ==
    pc = "returned" =>
        LET doc == policy[1]
            st == doc.Statement
            use == IF key_use_arns # <<>>
                     THEN <<"Allow use of the key",
                            "Allow attachment of persistent resources">>
                     ELSE <<>>
            admin == IF key_admin_arns # <<>>
                       THEN <<"Allow access for Key Administrators">>
                       ELSE <<>>
        IN  /\ doc.Version = "2012-10-17"
            /\ doc.Id = "key-default-1"
            /\ Sids(doc) = <<"Enable IAM User Permissions">> \o use \o admin
            /\ st[1].Principal.ids.fn = "Join"
            /\ st[1].Action = <<"kms:*">>
            /\ \A i \in 1..Len(st) :
                  /\ st[i].Sid \in {"Allow use of the key",
                                    "Allow attachment of persistent resources"}
                        => st[i].Principal =
                             [type |-> "AWS",
                              ids |-> [fn |-> "List", s |-> "",
                                       args |-> key_use_arns]]
                  /\ st[i].Sid = "Allow access for Key Administrators"
                        => st[i].Principal =
                             [type |-> "AWS",
                              ids |-> [fn |-> "List", s |-> "",
                                       args |-> key_admin_arns]]

C2_Witness ==
    /\ pc = "returned"
    /\ key_use_arns = <<>>
    /\ key_admin_arns = <<>>
    /\ Len(policy[1].Statement) = 1

(* C3: the step that creates the key gives both statements of the use pair *)
(* the principal list made of the KeyUseArns value it read followed by the *)
(* reference GetAtt(IAMRole, Arn); so the pair exists and names the role   *)
(* even when that value was empty.                                         *)
C3_RoleAppendedToKeyUse ==
    [][("EncryptionKey" \notin Resources(template)
          /\ "EncryptionKey" \in Resources(template'))
        => LET st == template'.resources["EncryptionKey"].KeyPolicy.Statement
               principal == [type |-> "AWS",
                             ids |-> [fn |-> "List", s |-> "",
                                      args |-> Get("KeyUseArns")
                                               \o <<RoleArnRef>>]]
           IN  /\ Len(st) >= 3
               /\ st[2].Sid = "Allow use of the key"
               /\ st[2].Principal = principal
               /\ st[3].Sid = "Allow attachment of persistent resources"
               /\ st[3].Principal = principal]_vars

C3_Witness ==
    /\ "EncryptionKey" \in Resources(template)
    /\ rendered = <<>>
    /\ snapshot["KeyUseArns"].val = <<>>
    /\ template.resources["EncryptionKey"].KeyPolicy.Statement[2].Principal.ids.args
          = <<RoleArnRef>>

(* C4: every invocation of create_template on the same variables yields    *)
(* the same template: the same resources, documents and outputs.           *)
C4_Idempotent ==
    \A i, j \in 1..Len(rendered) : rendered[i] = rendered[j]

(* C5: FirehoseWriteAccess and LogsPolicy exist iff one of RoleNames,      *)
(* GroupNames, UserNames is non-empty, and together; each attachment is    *)
(* the configured list when that list is non-empty and AWS::NoValue when   *)
(* it is empty, never an empty list, and the two policies attach alike.    *)
C5_AttachmentPolicies ==
    pc \in {"create_bucket", "create_role", "done"} =>
        /\ ("FirehoseWriteAccess" \in Resources(template)) <=> AnyNames
        /\ ("LogsPolicy" \in Resources(template)) <=> AnyNames
        /\ AnyNames =>
              LET w == template.resources["FirehoseWriteAccess"]
                  l == template.resources["LogsPolicy"]
                  Expected(names) ==
                      IF names # <<>>
                        THEN [fn |-> "List", s |-> "", args |-> names]
                        ELSE [fn |-> "Ref", s |-> "AWS::NoValue", args |-> <<>>]
              IN  /\ w.Roles = Expected(Get("RoleNames"))
                  /\ w.Groups = Expected(Get("GroupNames"))
                  /\ w.Users = Expected(Get("UserNames"))
                  /\ l.Roles = w.Roles
                  /\ l.Groups = w.Groups
                  /\ l.Users = w.Users

C5_Witness ==
    /\ pc = "done"
    /\ Get("RoleNames") # <<>>
    /\ Get("GroupNames") = <<>>
    /\ template.resources["LogsPolicy"].Groups.s = "AWS::NoValue"
    /\ template.resources["LogsPolicy"].Roles.args = Get("RoleNames")

(* C6, as claimed: when it exists, LogsPolicy grants the log-group and     *)
(* log-stream creation actions and the log-event write action.             *)
C6_LogsPolicyCreatesAndWrites ==
    "LogsPolicy" \in Resources(template) =>
        {"logs:CreateLogGroup", "logs:CreateLogStream", "logs:PutLogEvents"}
            \subseteq ActionsOf(template.resources["LogsPolicy"].PolicyDocument)

(* C6, amended: when it exists, LogsPolicy grants exactly the log-stream   *)
(* and log-group creation actions, on every resource, and not the          *)
(* log-event write action.                                                 *)
C6_LogsPolicyCreatesOnly ==
    "LogsPolicy" \in Resources(template) =>
        LET doc == template.resources["LogsPolicy"].PolicyDocument
        IN  /\ Len(doc.Statement) = 1
            /\ doc.Statement[1].Action =
                  <<"logs:CreateLogStream", "logs:CreateLogGroup">>
            /\ doc.Statement[1].Resource = <<Str("*")>>
            /\ "logs:PutLogEvents" \notin ActionsOf(doc)

C6_Witness ==
    /\ pc = "done"
    /\ "LogsPolicy" \in Resources(template)
    /\ "logs:PutLogEvents" \in
          ActionsOf(template.resources["IAMRole"].Policies[2].PolicyDocument)

(* C7: the access role carries exactly two inline policies, S3WriteAccess *)
(* then LogsWriteAccess; S3WriteAccess has one statement whose resources   *)
(* are exactly the ARN of Ref(S3Bucket) and the ARN of Ref(S3Bucket)/*,    *)
(* and S3Bucket is the bucket this template registers, under the           *)
(* configured name or auto-named.                                          *)
C7_S3WriteScopedToOwnBucket ==
    pc = "done" =>
        LET policies == template.resources["IAMRole"].Policies
            bucket == [fn |-> "Ref", s |-> "S3Bucket", args |-> <<>>]
            arn(x) == [fn |-> "Join", s |-> "",
                       args |-> <<Str("arn:aws:s3:::"), x>>]
            objects == [fn |-> "Join", s |-> "/",
                        args |-> <<bucket, Str("*")>>]
        IN  /\ Len(policies) = 2
            /\ policies[1].title = "S3WriteAccess"
            /\ policies[2].title = "LogsWriteAccess"
            /\ Len(policies[1].PolicyDocument.Statement) = 1
            /\ policies[1].PolicyDocument.Statement[1].Resource
                  = <<arn(bucket), arn(objects)>>
            /\ "S3Bucket" \in Resources(template)
            /\ template.resources["S3Bucket"].Type = "AWS::S3::Bucket"
            /\ template.resources["S3Bucket"].BucketName
                  = IF Get("BucketName") = ""
                      THEN [fn |-> "Ref", s |-> "AWS::NoValue", args |-> <<>>]
                      ELSE Str(Get("BucketName"))

C7_Witness ==
    /\ pc = "done"
    /\ Get("BucketName") = ""
    /\ template.resources["S3Bucket"].BucketName.s = "AWS::NoValue"
    /\ Refs(template.resources["IAMRole"].Policies[1].PolicyDocument
              .Statement[1].Resource[2]) = {"S3Bucket"}

\* the resources and outputs a configuration calls for
ExpectedResources ==
    {"S3Bucket", "IAMRole"}
    \cup (IF Get("EncryptS3Bucket") THEN {"EncryptionKey", "KeyAlias"} ELSE {})
    \cup (IF AnyNames THEN {"FirehoseWriteAccess", "LogsPolicy"} ELSE {})

ExpectedOutputs ==
    {"Bucket", "Role", "RoleArn"}
    \cup (IF Get("EncryptS3Bucket") THEN KeyOutputs ELSE {})

IllTypedConfiguration ==
    \/ \E n \in {"RoleNames", "GroupNames", "UserNames",
                 "KeyUseArns", "KeyAdminArns"} : variables[n].type # "list"
    \/ variables["BucketName"].type # "str"
    \/ \E n \in {"EncryptS3Bucket", "EnableKeyRotation"} :
          variables[n].type # "bool"

(* C8: with a value of the wrong type the composition fails and nothing is *)
(* ever registered; a composition that ends has either failed, with an     *)
(* empty template, or holds exactly the resources and outputs its          *)
(* configuration calls for.                                                *)
C8_AllOrNothing ==
    /\ IllTypedConfiguration =>
          /\ pc \in {"resolve_variables", "failed"}
          /\ Resources(template) = {}
          /\ Outputs(template) = {}
          /\ rendered = <<>>
    /\ pc = "failed" => IllTypedConfiguration
    /\ pc = "done" =>
          /\ Resources(template) = ExpectedResources
          /\ Outputs(template) = ExpectedOutputs

C8_Witness ==
    /\ pc = "failed"
    /\ variables["KeyUseArns"].type = "str"
    /\ Resources(template) = {}

(* C9: when create_template has completed, every variable has the value it *)
(* had when the composition began.                                         *)
C9_ConfigurationUnchanged ==
    pc = "done" => variables = snapshot

(* C10: when create_template has completed, every logical name that a      *)
(* resource, a policy document or an output of the template refers to is a *)
(* resource of the template; the key policy's reference to IAMRole, made   *)
(* before the role is registered, is among them.                           *)
C10_ReferencesResolve ==
    /\ pc = "done" => RefsOfTemplate(template) \subseteq Resources(template)
    /\ "EncryptionKey" \in Resources(template) =>
          /\ "IAMRole" \in RefsOfResource(template.resources["EncryptionKey"])
          /\ "EncryptionKey" \in RefsOfResource(template.resources["KeyAlias"])
          /\ template.outputs["KmsKeyAlias"].s = "KeyAlias"
          /\ "EncryptionKey" \in Refs(template.outputs["KmsKeyArn"])
          /\ template.outputs["KmsKeyId"].s = "EncryptionKey"

C10_Witness ==
    /\ pc = "done"
    /\ "EncryptionKey" \in Resources(template)
    /\ "IAMRole" \in RefsOfResource(template.resources["EncryptionKey"])
    /\ RefsOfTemplate(template) = {"IAMRole", "EncryptionKey", "KeyAlias", "S3Bucket"}

====
